---- MODULE Spec2Model ----
(***************************************************************************)
(* Model of document-word-extractor (src/index.js).                        *)
(*                                                                         *)
(* A string is a sequence of UTF-16 code units (natural numbers), which is *)
(* what String.prototype.split, replace, sort and Array.prototype.includes *)
(* operate on.  The file system maps the five file names to their content, *)
(* or to NoFile when the file does not exist.  One process runs main():    *)
(* every await of main is one step of the process.                         *)
(***************************************************************************)
EXTENDS Naturals, Integers, Sequences, FiniteSets, TLC

(***************************************************************************)
(* Code units the program names: '\n' (split, join), ' ' (flattenText),    *)
(* '.' and '\\' (escapeExpression).                                         *)
(***************************************************************************)
LF == 10
SPACE == 32
DOT == 46
BACKSLASH == 92

(* Bounds of the enumerated inputs: the code units of the four input files *)
(* taken together, for files of any content and for files of words.        *)
MaxInputLen == 4
MaxWordsLen == 6

(* Code units of the files of any content: tab, line feed, space, '.', 'A',*)
(* '\', 'a', 'b' in the text; line feed, space, '.', '\' as special        *)
(* characters; line feed, 'a', 'b' in the two word lists.                  *)
TextAlphabet == {9, 10, 32, 46, 65, 92, 97, 98}
SpecialAlphabet == {10, 32, 46, 92}
ListAlphabet == {10, 97, 98}

(* Code units of the files of words: the words are made of 'a' and 'b' and *)
(* separated by spaces; line feed and space as special characters.         *)
WordTextAlphabet == {32, 97, 98}
WordSpecialAlphabet == {10, 32}

INPUT_FILE_PATH == "input.txt"
SPECIAL_CHARACTER_FILE_PATH == "special-chars.txt"
IGNORED_WORDS_FILE_PATH == "ignored-words.txt"
KNOWN_WORDS_FILE_PATH == "known-words.txt"
OUTPUT_FILE_PATH == "output.txt"

InputFiles ==
    {SPECIAL_CHARACTER_FILE_PATH, IGNORED_WORDS_FILE_PATH,
     KNOWN_WORDS_FILE_PATH, INPUT_FILE_PATH}

FileNames == InputFiles \cup {OUTPUT_FILE_PATH}

(* The content of a path that does not exist: no string contains -1. *)
NoFile == <<-1>>

(***************************************************************************)
(* Strings.                                                                *)
(***************************************************************************)
SeqsUpTo(S, n) == UNION {[1..k -> S] : k \in 0..n}

RECURSIVE Concat(_)
Concat(ss) == IF ss = <<>> THEN <<>> ELSE Head(ss) \o Concat(Tail(ss))

Range(s) == {s[i] : i \in 1..Len(s)}

(* a < b for strings, as the default comparison of Array.prototype.sort:   *)
(* code unit by code unit, a proper prefix first.                          *)
RECURSIVE StrLess(_, _)
StrLess(a, b) ==
    IF b = <<>> THEN FALSE
    ELSE IF a = <<>> THEN TRUE
    ELSE IF Head(a) # Head(b) THEN Head(a) < Head(b)
    ELSE StrLess(Tail(a), Tail(b))

(* String.prototype.split(sep) for a one-unit separator. *)
RECURSIVE SplitFrom(_, _, _)
SplitFrom(text, sep, cur) ==
    IF text = <<>> THEN <<cur>>
    ELSE IF Head(text) = sep THEN <<cur>> \o SplitFrom(Tail(text), sep, <<>>)
    ELSE SplitFrom(Tail(text), sep, Append(cur, Head(text)))

Split(text, sep) == SplitFrom(text, sep, <<>>)

(* String.prototype.split(''): one string per code unit. *)
SplitUnits(text) == [i \in 1..Len(text) |-> <<text[i]>>]

(* Array.prototype.join(sep). *)
RECURSIVE Join(_, _)
Join(lines, sep) ==
    IF lines = <<>> THEN <<>>
    ELSE IF Len(lines) = 1 THEN lines[1]
    ELSE lines[1] \o <<sep>> \o Join(Tail(lines), sep)

(* String.prototype.toLowerCase on the Basic Latin letters. *)
LowerUnit(u) == IF u \in 65..90 THEN u + 32 ELSE u

toLowerCase(text) == [i \in 1..Len(text) |-> LowerUnit(text[i])]

(***************************************************************************)
(* Regular expressions: the part of the pattern language the program's     *)
(* patterns can use.  A pattern is parsed into atoms: a backslash makes    *)
(* the next unit a literal, a bare '.' matches any unit but a line         *)
(* terminator, any other unit matches itself.  (The other syntax           *)
(* characters never reach the parser unescaped.)                           *)
(***************************************************************************)
LineTerminators == {10, 13, 8232, 8233}

Literal(u) == [kind |-> "literal", unit |-> u]
AnyCharacter == [kind |-> "any", unit |-> 0]

AtomMatches(atom, u) ==
    IF atom.kind = "any" THEN u \notin LineTerminators ELSE u = atom.unit

(* The characters of the class [.*+?^${}()|[\]\\]. *)
SyntaxCharacters == {46, 42, 43, 63, 94, 36, 123, 125, 40, 41, 124, 91, 93, 92}

RECURSIVE PatternAtoms(_)
PatternAtoms(p) ==
    IF p = <<>> THEN <<>>
    ELSE IF Head(p) = BACKSLASH /\ Len(p) >= 2
         THEN <<Literal(p[2])>> \o PatternAtoms(Tail(Tail(p)))
    ELSE IF Head(p) = DOT
         THEN <<AnyCharacter>> \o PatternAtoms(Tail(p))
    ELSE <<Literal(Head(p))>> \o PatternAtoms(Tail(p))

MatchesAt(text, atoms) ==
    /\ Len(atoms) <= Len(text)
    /\ \A i \in 1..Len(atoms) : AtomMatches(atoms[i], text[i])

(* text.replace(regex, '') with the g flag: every match, left to right. *)
RECURSIVE ReplaceAll(_, _)
ReplaceAll(text, atoms) ==
    IF text = <<>> THEN <<>>
    ELSE IF atoms # <<>> /\ MatchesAt(text, atoms)
         THEN ReplaceAll(SubSeq(text, Len(atoms) + 1, Len(text)), atoms)
    ELSE <<Head(text)>> \o ReplaceAll(Tail(text), atoms)

(***************************************************************************)
(* The functions of src/index.js.                                          *)
(***************************************************************************)
getSpecialCharacters(content) == SplitUnits(content)

(* Variant: the file is taken as one entry. *)
getListOfWordsWhole(content) == <<content>>

getListOfWords(content) == Split(content, LF)

(* Variant: spaces are left in place. *)
flattenTextKeepsSpaces(input) == input

flattenText(input) ==
    [i \in 1..Len(input) |-> IF input[i] = SPACE THEN LF ELSE input[i]]

(* Variant: nothing is escaped. *)
escapeExpressionNothing(expression) == expression

escapeExpression(expression) ==
    Concat([i \in 1..Len(expression) |->
              IF expression[i] \in SyntaxCharacters
              THEN <<BACKSLASH, expression[i]>>
              ELSE <<expression[i]>>])

buildRegEx(expression) == PatternAtoms(escapeExpression(expression))

RECURSIVE removeCharacters(_, _)
removeCharacters(text, chars) ==
    IF chars = <<>> THEN text
    ELSE removeCharacters(ReplaceAll(text, buildRegEx(Head(chars))), Tail(chars))

Includes(arr, x) == \E i \in 1..Len(arr) : arr[i] = x

(* Variant: only the first word to remove is looked at. *)
removeWordsFirstOnly(words, wordsToRemove) ==
    LET keep(word) == wordsToRemove = <<>> \/ wordsToRemove[1] # word
    IN  SelectSeq(words, keep)

removeWords(words, wordsToRemove) ==
    LET keep(word) == ~Includes(wordsToRemove, word)
    IN  SelectSeq(words, keep)

(* Variant: empty lines are kept. *)
AllLines(text) == Split(text, LF)

NonEmptyLines(text) ==
    LET nonEmpty(line) == line # <<>>
    IN  SelectSeq(Split(text, LF), nonEmpty)

(* Array.prototype.sort() without a comparator (insertion into a sorted    *)
(* prefix; equal strings are indistinguishable, so stability is moot).     *)
RECURSIVE InsertSorted(_, _)
InsertSorted(sorted, x) ==
    IF sorted = <<>> THEN <<x>>
    ELSE IF StrLess(x, Head(sorted)) THEN <<x>> \o sorted
    ELSE <<Head(sorted)>> \o InsertSorted(Tail(sorted), x)

(* Variant: the lines are left in their order. *)
SortNothing(lines) == lines

RECURSIVE Sort(_)
Sort(lines) ==
    IF lines = <<>> THEN <<>>
    ELSE InsertSorted(Sort(SubSeq(lines, 1, Len(lines) - 1)), lines[Len(lines)])

(* [...new Set(lines)]: the first occurrence of each value, in order. *)
RECURSIVE Unique(_)
Unique(lines) ==
    IF lines = <<>> THEN <<>>
    ELSE LET init == Unique(SubSeq(lines, 1, Len(lines) - 1))
             last == lines[Len(lines)]
         IN  IF Includes(init, last) THEN init ELSE Append(init, last)

(* main, lines 131-138: the text after flattening, lower-casing, removal. *)
NormalizedText(input, chars) ==
    removeCharacters(toLowerCase(flattenText(input)), chars)

(* main, lines 141-153: the lines that are written. *)
ExtractWords(text, ignored, known) ==
    removeWords(removeWords(Unique(Sort(NonEmptyLines(text))), ignored), known)

(***************************************************************************)
(* The process.                                                            *)
(***************************************************************************)
VARIABLES
    fs,            \* the files of the working directory
    pc,            \* the await main() is at, or "done" / "error"
    specialChars,  \* main's constants and variables
    ignoredWords,
    knownWords,
    inputText,     \* inputText after line 138
    outputText,
    fs0,           \* history: the files when the current run started
    readLog,       \* history: the files read so far by the current run
    merged         \* history: the run started from the previous run's
                   \* files with its output appended to the known words

vars ==
    <<fs, pc, specialChars, ignoredWords, knownWords, inputText, outputText,
      fs0, readLog, merged>>

(* What output.txt holds before the first run: a list no run could write. *)
StaleOutput == <<98, 10, 98>>

Files(special, ignored, known, input, output) ==
    [f \in FileNames |->
        CASE f = SPECIAL_CHARACTER_FILE_PATH -> special
          [] f = IGNORED_WORDS_FILE_PATH -> ignored
          [] f = KNOWN_WORDS_FILE_PATH -> known
          [] f = INPUT_FILE_PATH -> input
          [] f = OUTPUT_FILE_PATH -> output]

(* A file of at most n code units over the alphabet, or no file; a missing *)
(* file counts as one code unit of the bound.                              *)
FilesUpTo(alphabet, n) ==
    SeqsUpTo(alphabet, n) \cup (IF n > 0 THEN {NoFile} ELSE {})

InitFiles(textAlphabet, specialAlphabet, listAlphabet, maxLen) ==
    \E input \in FilesUpTo(textAlphabet, maxLen) :
    \E special \in FilesUpTo(specialAlphabet, maxLen - Len(input)) :
    \E ignored \in FilesUpTo(listAlphabet, maxLen - Len(input) - Len(special)) :
    \E known \in FilesUpTo(listAlphabet,
                           maxLen - Len(input) - Len(special) - Len(ignored)) :
        fs = Files(special, ignored, known, input, StaleOutput)

InitProcess ==
    /\ pc = "readSpecialChars"
    /\ specialChars = <<>>
    /\ ignoredWords = <<>>
    /\ knownWords = <<>>
    /\ inputText = <<>>
    /\ outputText = <<>>
    /\ fs0 = fs
    /\ readLog = <<>>
    /\ merged = FALSE

(* Files of any content. *)
Init ==
    /\ InitFiles(TextAlphabet, SpecialAlphabet, ListAlphabet, MaxInputLen)
    /\ InitProcess

(* Files of words. *)
InitWords ==
    /\ InitFiles(WordTextAlphabet, WordSpecialAlphabet, ListAlphabet, MaxWordsLen)
    /\ InitProcess

(* Variant: the rejection is swallowed and the process ends normally. *)
ReadFailsSwallowed ==
    /\ pc' = "done"
    /\ UNCHANGED <<fs, specialChars, ignoredWords, knownWords, inputText,
                   outputText, fs0, readLog, merged>>

(* Variant: the failing run still writes its (empty) output. *)
ReadFailsWritesOutput ==
    /\ pc' = "error"
    /\ fs' = [fs EXCEPT ![OUTPUT_FILE_PATH] = outputText]
    /\ UNCHANGED <<specialChars, ignoredWords, knownWords, inputText,
                   outputText, fs0, readLog, merged>>

(* await readFileAsync(path, 'utf8') rejects: nothing catches it. *)
ReadFails ==
    /\ pc' = "error"
    /\ UNCHANGED <<fs, specialChars, ignoredWords, knownWords, inputText,
                   outputText, fs0, readLog, merged>>

ReadSpecialChars ==
    /\ pc = "readSpecialChars"
    /\ IF fs[SPECIAL_CHARACTER_FILE_PATH] = NoFile THEN ReadFails
       ELSE /\ specialChars' = getSpecialCharacters(fs[SPECIAL_CHARACTER_FILE_PATH])
            /\ readLog' = Append(readLog, SPECIAL_CHARACTER_FILE_PATH)
            /\ pc' = "readIgnoredWords"
            /\ UNCHANGED <<fs, ignoredWords, knownWords, inputText, outputText,
                           fs0, merged>>

ReadIgnoredWords ==
    /\ pc = "readIgnoredWords"
    /\ IF fs[IGNORED_WORDS_FILE_PATH] = NoFile THEN ReadFails
       ELSE /\ ignoredWords' = getListOfWords(fs[IGNORED_WORDS_FILE_PATH])
            /\ readLog' = Append(readLog, IGNORED_WORDS_FILE_PATH)
            /\ pc' = "readKnownWords"
            /\ UNCHANGED <<fs, specialChars, knownWords, inputText, outputText,
                           fs0, merged>>

ReadKnownWords ==
    /\ pc = "readKnownWords"
    /\ IF fs[KNOWN_WORDS_FILE_PATH] = NoFile THEN ReadFails
       ELSE /\ knownWords' = getListOfWords(fs[KNOWN_WORDS_FILE_PATH])
            /\ readLog' = Append(readLog, KNOWN_WORDS_FILE_PATH)
            /\ pc' = "readInput"
            /\ UNCHANGED <<fs, specialChars, ignoredWords, inputText, outputText,
                           fs0, merged>>

(* The read of input.txt resolves and main runs to the await of the write. *)
ReadInput ==
    /\ pc = "readInput"
    /\ IF fs[INPUT_FILE_PATH] = NoFile THEN ReadFails
       ELSE /\ inputText' = NormalizedText(fs[INPUT_FILE_PATH], specialChars)
            /\ outputText' =
                   Join(ExtractWords(inputText', ignoredWords, knownWords), LF)
            /\ readLog' = Append(readLog, INPUT_FILE_PATH)
            /\ pc' = "writeOutput"
            /\ UNCHANGED <<fs, specialChars, ignoredWords, knownWords, fs0, merged>>

(* Variant: the known words are rewritten along with the output. *)
WrittenFilesAndKnown(text) ==
    [fs EXCEPT ![OUTPUT_FILE_PATH] = text,
               ![KNOWN_WORDS_FILE_PATH] = Join(knownWords \o ignoredWords, LF)]

WrittenFiles(text) == [fs EXCEPT ![OUTPUT_FILE_PATH] = text]

WriteOutput ==
    /\ pc = "writeOutput"
    /\ fs' = WrittenFiles(outputText)
    /\ pc' = "done"
    /\ UNCHANGED <<specialChars, ignoredWords, knownWords, inputText,
                   outputText, fs0, readLog, merged>>

(* The user appends the words of output.txt to known-words.txt, one entry  *)
(* per word, and starts the program again.                                 *)
MergedKnownWords(known, output) ==
    IF output = <<>> THEN known ELSE known \o <<LF>> \o output

RunAgainWithOutputKnown ==
    /\ pc = "done"
    /\ fs[OUTPUT_FILE_PATH] # <<>>
    /\ fs' = [fs EXCEPT ![KNOWN_WORDS_FILE_PATH] =
                  MergedKnownWords(fs[KNOWN_WORDS_FILE_PATH], fs[OUTPUT_FILE_PATH])]
    /\ fs0' = fs'
    /\ merged' = TRUE
    /\ pc' = "readSpecialChars"
    /\ specialChars' = <<>>
    /\ ignoredWords' = <<>>
    /\ knownWords' = <<>>
    /\ inputText' = <<>>
    /\ outputText' = <<>>
    /\ readLog' = <<>>

Next ==
    \/ ReadSpecialChars
    \/ ReadIgnoredWords
    \/ ReadKnownWords
    \/ ReadInput
    \/ WriteOutput
    \/ RunAgainWithOutputKnown

Spec == Init /\ [][Next]_vars

SpecWords == InitWords /\ [][Next]_vars

(***************************************************************************)
(* Vocabulary of the properties, defined on the files themselves.          *)
(***************************************************************************)
ReadOrder ==
    <<SPECIAL_CHARACTER_FILE_PATH, IGNORED_WORDS_FILE_PATH,
      KNOWN_WORDS_FILE_PATH, INPUT_FILE_PATH>>

Completed == pc = "done"

(* The lines of a text: its maximal segments without a line feed. *)
LineSet(text) ==
    LET n == Len(text)
        starts == {i \in 1..n + 1 : i = 1 \/ text[i - 1] = LF}
        ends == {j \in 0..n : j = n \/ text[j + 1] = LF}
        lines == {p \in starts \X ends :
                    /\ p[1] <= p[2] + 1
                    /\ \A k \in p[1]..p[2] : text[k] # LF}
    IN  {SubSeq(text, p[1], p[2]) : p \in lines}

(* The words of a newline-joined file. *)
WordsOf(content) == IF content = <<>> THEN <<>> ELSE Split(content, LF)

OutputWords == WordsOf(fs[OUTPUT_FILE_PATH])

StrictlyAscending(words) ==
    \A i \in 1..Len(words) - 1 : StrLess(words[i], words[i + 1])

(* The tokens of the run, in text order, before sorting. *)
Tokens == NonEmptyLines(inputText)

IgnoredEntries == LineSet(fs[IGNORED_WORDS_FILE_PATH])
KnownEntries == LineSet(fs[KNOWN_WORDS_FILE_PATH])

Whitespace == {9, 10, 11, 12, 13, 32}

SpecialUnits == Range(fs[SPECIAL_CHARACTER_FILE_PATH])

(* The text without the code units of the set, the rest in order. *)
Without(text, units) ==
    LET kept(u) == u \notin units
    IN  SelectSeq(text, kept)

(* C1: the word list written to output.txt by a completed run is strictly
   ascending in code-unit order, hence sorted and without a repeated word. *)
C1_OutputStrictlyAscending ==
    Completed => StrictlyAscending(OutputWords)

C1_Witness ==
    /\ Completed
    /\ Len(OutputWords) >= 2
    /\ ~StrictlyAscending(Tokens)

(* C2: no word written to output.txt by a completed run is an entry of the
   ignored-word list or of the known-word list. *)
C2_OutputDisjointFromLists ==
    Completed =>
        \A i \in 1..Len(OutputWords) :
            OutputWords[i] \notin IgnoredEntries \cup KnownEntries

C2_Witness ==
    /\ Completed
    /\ \E i \in 1..Len(Tokens) : Tokens[i] \in IgnoredEntries
    /\ \E i \in 1..Len(Tokens) : Tokens[i] \in KnownEntries

(* C3: a run started after the previous run's output was added to the known
   words, everything else unchanged, writes an empty output; and whenever
   the known words contain every word a run would otherwise write, the
   output is empty. *)
C3_RerunWritesNothing ==
    Completed =>
        /\ merged => fs[OUTPUT_FILE_PATH] = <<>>
        /\ (\A i \in 1..Len(Tokens) :
                Tokens[i] \in IgnoredEntries \cup KnownEntries)
             => fs[OUTPUT_FILE_PATH] = <<>>

C3_Witness ==
    /\ Completed
    /\ merged
    /\ Len(WordsOf(fs0[OUTPUT_FILE_PATH])) >= 2

(* C4: when one of the four input files is missing, the run never reaches
   normal completion, and where it stops it has stopped in the error
   state. *)
C4_MissingFileEndsInError ==
    (\E f \in InputFiles : fs[f] = NoFile) =>
        /\ pc \notin {"writeOutput", "done"}
        /\ ~ENABLED Next => pc = "error"

C4_Witness ==
    /\ pc = "error"
    /\ fs[INPUT_FILE_PATH] = NoFile
    /\ Len(readLog) = 3

(* C5: at every point of a run, completed or failed, the four input files
   hold what they held when the run started; only output.txt changes. *)
C5_InputFilesUnchanged ==
    \A f \in InputFiles : fs[f] = fs0[f]

C5_Witness ==
    /\ Completed
    /\ fs[OUTPUT_FILE_PATH] # fs0[OUTPUT_FILE_PATH]
    /\ \E i \in 1..Len(Tokens) : Tokens[i] \in IgnoredEntries \ KnownEntries

(* C6: two words separated by a space, a tab or a line break end up as two
   tokens, so no word written by a completed run contains a whitespace
   character. *)
C6_NoWhitespaceInOutput ==
    Completed =>
        \A i \in 1..Len(OutputWords) :
            Range(OutputWords[i]) \cap Whitespace = {}

(* C7: removeCharacters deletes exactly the configured characters: the text
   after removal is the lower-cased, flattened text without every code unit
   of special-chars.txt, the rest in order; no written word contains one. *)
C7_RemovesExactlySpecialChars ==
    Completed =>
        /\ inputText =
              Without(toLowerCase(flattenText(fs[INPUT_FILE_PATH])), SpecialUnits)
        /\ \A i \in 1..Len(OutputWords) :
              Range(OutputWords[i]) \cap SpecialUnits = {}

C7_Witness ==
    /\ Completed
    /\ DOT \in SpecialUnits
    /\ DOT \in Range(fs[INPUT_FILE_PATH])
    /\ OutputWords # <<>>

(* C8: the words written by a completed run are exactly the distinct
   non-empty lines of the normalized text that are neither an ignored entry
   nor a known entry, in ascending order; and sorting then deduplicating
   gives what deduplicating then sorting gives. *)
C8_OutputIsReferenceFilter ==
    Completed =>
        /\ Range(OutputWords) =
              (LineSet(inputText) \ {<<>>}) \ (IgnoredEntries \cup KnownEntries)
        /\ StrictlyAscending(OutputWords)
        /\ Unique(Sort(Tokens)) = Sort(Unique(Tokens))

C8_Witness ==
    /\ Completed
    /\ ~StrictlyAscending(Tokens)
    /\ Cardinality(Range(Tokens)) < Len(Tokens)
    /\ OutputWords # <<>>

(* C9: output.txt is written only after the four input files were read, in
   the order special-chars.txt, ignored-words.txt, known-words.txt,
   input.txt; a run that fails on a read leaves output.txt as it was. *)
C9_WriteAfterAllReads ==
    /\ \E n \in 0..4 : readLog = SubSeq(ReadOrder, 1, n)
    /\ (Completed \/ fs[OUTPUT_FILE_PATH] # fs0[OUTPUT_FILE_PATH])
          => readLog = ReadOrder
    /\ pc = "error" => fs[OUTPUT_FILE_PATH] = fs0[OUTPUT_FILE_PATH]

C9_Witness ==
    /\ pc = "error"
    /\ readLog = SubSeq(ReadOrder, 1, 2)
    /\ fs[OUTPUT_FILE_PATH] = StaleOutput

(* C10: a line feed in special-chars.txt removes every token separator, so
   at most one word is written; a space in special-chars.txt changes
   nothing of what is written. *)
C10_LineFeedCollapsesSpaceIsInert ==
    Completed =>
        /\ LF \in SpecialUnits =>
              /\ LF \notin Range(inputText)
              /\ Len(OutputWords) <= 1
        /\ fs[OUTPUT_FILE_PATH] =
              Join(ExtractWords(
                     NormalizedText(fs[INPUT_FILE_PATH],
                                    getSpecialCharacters(
                                      Without(fs[SPECIAL_CHARACTER_FILE_PATH],
                                              {SPACE}))),
                     ignoredWords, knownWords), LF)

C10_Witness ==
    /\ Completed
    /\ SpecialUnits = {LF, SPACE}
    /\ Len(NonEmptyLines(toLowerCase(flattenText(fs[INPUT_FILE_PATH])))) >= 2
    /\ Len(OutputWords) = 1

====
